---------------------------- MODULE Spec2Model ----------------------------
(***************************************************************************)
(* Model of the table layout of lah (src/lah.go): printTable's clamp,      *)
(* floor check and shrink loop, getTerminalWidth, stripANSI and            *)
(* calculateDisplayWidths.                                                 *)
(*                                                                         *)
(* Go slices are modelled as functions over 0..len-1, so that column       *)
(* indices are the source's (Name 0, Size 1, Modified 2, Perms 3, Git 4).  *)
(* Go strings are sequences of bytes (integers 0..255).                    *)
(***************************************************************************)
EXTENDS Integers, Sequences, FiniteSets

VARIABLES
    pc,               \* position in printTable / stripANSI
    showGit,          \* config.ShowGit
    terminalWidth,    \* printTable: terminalWidth
    mins,             \* printTable: mins
    maxs,             \* printTable: maxs
    displayWidths,    \* printTable: displayWidths
    clamped,          \* history: displayWidths as they left the clamp loop
    i,                \* loop index (printTable's shrink loop, stripANSI's i)
    excess,           \* printTable: excess
    totalShrinkable,  \* printTable: totalShrinkable
    out,              \* what printTable wrote: "none", "tooSmall", "table"
    tableWidths,      \* the widths handed to table.NewTableWithWidths
    s,                \* stripANSI: the argument
    result,           \* stripANSI: the strings.Builder
    data,             \* calculateDisplayWidths: the argument
    widths,           \* calculateDisplayWidths: widths (the return value)
    col,              \* calculateDisplayWidths: column index j (i is the row)
    env,              \* getTerminalWidth: what the environment answers
    width             \* getTerminalWidth: the return value

vars == <<pc, showGit, terminalWidth, mins, maxs, displayWidths, clamped, i,
          excess, totalShrinkable, out, tableWidths, s, result,
          data, widths, col, env, width>>

-----------------------------------------------------------------------------
(* Bounds of the model *)

MaxName == 23        \* longest sampled file name (besides LongNames)
MaxColumns == 80     \* largest value of $COLUMNS
MaxLen == 4          \* longest enumerated stripANSI argument
MaxClampValue == 4   \* largest width / bound of the clamp-only specification
MaxCells == 4        \* most cells of an enumerated grid (rows * columns)

-----------------------------------------------------------------------------
(* Slices *)

len(f) == Cardinality(DOMAIN f)

Slice(q) == [k \in 0..(Len(q) - 1) |-> q[k + 1]]

Empty == Slice(<<>>)

RECURSIVE SumTo(_, _)
SumTo(f, n) == IF n = 0 THEN 0 ELSE SumTo(f, n - 1) + f[n - 1]

Sum(f) == SumTo(f, len(f))

\* Go's integer division truncates toward zero.
GoDiv(a, b) ==
    IF (a >= 0) = (b > 0) THEN (IF a >= 0 THEN a ELSE -a) \div (IF b > 0 THEN b ELSE -b)
    ELSE -((IF a >= 0 THEN a ELSE -a) \div (IF b > 0 THEN b ELSE -b))

Max(a, b) == IF a > b THEN a ELSE b

-----------------------------------------------------------------------------
(* getTerminalWidth *)

NoValue == -1000   \* variable unset, not a number, or the call failed

Margin == 10
FallbackWidth == 70
MinTerminalWidth == 40

\* columns: Atoi($COLUMNS); termWidth: term.GetSize; tputCols: Atoi(tput cols)
getTerminalWidth(columns, termWidth, tputCols) ==
    IF columns # NoValue /\ columns > 0 THEN columns - Margin
    ELSE IF termWidth # NoValue /\ termWidth > 0 THEN termWidth - Margin
    ELSE IF tputCols # NoValue /\ tputCols > 0 THEN tputCols - Margin
    ELSE FallbackWidth

\* the environment of a run that does not ask for the terminal width
NoEnv == [columns |-> NoValue, termWidth |-> NoValue, tputCols |-> NoValue]

ColumnsValues == {NoValue, -5} \cup (0..MaxColumns)
TermValues == {NoValue, 0, 5, 72}
TputValues == {NoValue, 0, 5, 75}

\* terminalWidth := max(getTerminalWidth(), 40)
TerminalWidths ==
    {Max(getTerminalWidth(c, t, p), MinTerminalWidth) :
        c \in ColumnsValues, t \in TermValues, p \in TputValues}

-----------------------------------------------------------------------------
(* The widths calculateDisplayWidths can return for the grid printTable     *)
(* builds: per column, the header's width or that of a formatted cell.      *)

LongNames == {50, 51}
\* "Name" (4) or the longest file name
NameWidths == {4, 9} \cup (14..MaxName) \cup LongNames
\* "Size" (4), "512 B" .. "1023 B", "1.0 KB" .. "1024.0 TB"
SizeWidths == 4..9
\* "Modified" (8), "N days ago" (10) .. "NN minutes ago" (14)
ModifiedWidths == {8} \cup (10..14)
\* one type character and nine permission characters
PermsWidths == {10}
\* "Git" (3), "+N -M" (5), "(clean)" (7)
GitWidths == {3, 5, 7}

NaturalWidths(git) ==
    IF git
    THEN {Slice(<<a, b, c, d, e>>) :
            a \in NameWidths, b \in SizeWidths, c \in ModifiedWidths,
            d \in PermsWidths, e \in GitWidths}
    ELSE {Slice(<<a, b, c, d>>) :
            a \in NameWidths, b \in SizeWidths, c \in ModifiedWidths,
            d \in PermsWidths}

-----------------------------------------------------------------------------
(* columnConstraints, lookupMin *)

columnConstraints(git) ==
    IF git
    THEN [mins |-> Slice(<<15, 6, 10, 10, 6>>), maxs |-> Slice(<<50, 10, 15, 12, 12>>)]
    ELSE [mins |-> Slice(<<15, 6, 10, 10>>), maxs |-> Slice(<<50, 10, 15, 12>>)]

lookupMinFallback(ms, idx, fallback) == fallback

lookupMin(ms, idx, fallback) ==
    IF idx < len(ms) /\ ms[idx] > 0 THEN ms[idx] ELSE fallback

DefaultMin == 4

-----------------------------------------------------------------------------
(* printTable: the clamp loop *)

clampWidth(w, ms, xs, k) ==
    LET w1 == IF k < len(ms) /\ ms[k] > 0 /\ w < ms[k] THEN ms[k] ELSE w
    IN  IF k < len(xs) /\ xs[k] > 0 /\ w1 > xs[k] THEN xs[k] ELSE w1

Clamp ==
    /\ pc = "clamp"
    /\ displayWidths' = [k \in DOMAIN displayWidths |->
                            clampWidth(displayWidths[k], mins, maxs, k)]
    /\ clamped' = displayWidths'
    /\ pc' = "floor"
    /\ UNCHANGED <<showGit, terminalWidth, mins, maxs, i, excess,
                   totalShrinkable, out, tableWidths, s, result>>
    /\ UNCHANGED <<data, widths, col, env, width>>

-----------------------------------------------------------------------------
(* printTable: the floor check *)

RECURSIVE minContentWidthTo(_, _)
minContentWidthTo(ms, n) ==
    IF n = 0 THEN 0 ELSE minContentWidthTo(ms, n - 1) + lookupMin(ms, n - 1, DefaultMin)

minBorderWidth(n) == (n - 1) * 3 + 2

tooSmallNoBorder(tw, content, border) == tw < content

tooSmall(tw, content, border) == tw < content + border

TooSmall ==
    /\ pc = "floor"
    /\ tooSmall(terminalWidth, minContentWidthTo(mins, len(displayWidths)),
                minBorderWidth(len(displayWidths)))
    /\ out' = "tooSmall"
    /\ pc' = "done"
    /\ UNCHANGED <<showGit, terminalWidth, mins, maxs, displayWidths, clamped, i,
                   excess, totalShrinkable, tableWidths, s, result>>
    /\ UNCHANGED <<data, widths, col, env, width>>

FloorOk ==
    /\ pc = "floor"
    /\ ~tooSmall(terminalWidth, minContentWidthTo(mins, len(displayWidths)),
                 minBorderWidth(len(displayWidths)))
    /\ pc' = "totals"
    /\ UNCHANGED <<showGit, terminalWidth, mins, maxs, displayWidths, clamped, i,
                   excess, totalShrinkable, out, tableWidths, s, result>>
    /\ UNCHANGED <<data, widths, col, env, width>>

-----------------------------------------------------------------------------
(* printTable: adjust widths to fit the terminal *)

borderWidthPerColumn(n) == n * 3 + 2

borderWidth(n) == (n - 1) * 3 + 2

totalWidth(ws) == Sum(ws) + borderWidth(len(ws))

isShrinkableNotPerms(k) == k # 3

\* Don't shrink Size and Perms columns
isShrinkable(k) == k # 1 /\ k # 3

RECURSIVE totalShrinkableAll(_, _, _)
totalShrinkableAll(ws, ms, n) ==
    IF n = 0 THEN 0
    ELSE LET k == n - 1
             minWidth == lookupMin(ms, k, DefaultMin)
         IN  totalShrinkableAll(ws, ms, k)
             + (IF ws[k] - minWidth > 0 THEN ws[k] - minWidth ELSE 0)

RECURSIVE totalShrinkableTo(_, _, _)
totalShrinkableTo(ws, ms, n) ==
    IF n = 0 THEN 0
    ELSE LET k == n - 1
             minWidth == lookupMin(ms, k, DefaultMin)
         IN  totalShrinkableTo(ws, ms, k)
             + (IF isShrinkable(k) /\ ws[k] - minWidth > 0 THEN ws[k] - minWidth ELSE 0)

shrinkAmountRoundUp(shrinkable, exc, total) ==
    LET a == GoDiv(shrinkable * exc + total - 1, total)
    IN  IF a > shrinkable THEN shrinkable ELSE a

shrinkAmount(shrinkable, exc, total) ==
    LET a == GoDiv(shrinkable * exc, total)
    IN  IF a > shrinkable THEN shrinkable ELSE a

NoShrinkNeeded ==
    /\ pc = "totals"
    /\ ~(totalWidth(displayWidths) > terminalWidth)
    /\ pc' = "render"
    /\ UNCHANGED <<showGit, terminalWidth, mins, maxs, displayWidths, clamped, i,
                   excess, totalShrinkable, out, tableWidths, s, result>>
    /\ UNCHANGED <<data, widths, col, env, width>>

BeginShrink ==
    /\ pc = "totals"
    /\ totalWidth(displayWidths) > terminalWidth
    /\ excess' = totalWidth(displayWidths) - terminalWidth
    /\ totalShrinkable' = totalShrinkableTo(displayWidths, mins, len(displayWidths))
    /\ i' = 0
    /\ pc' = "shrink"
    /\ UNCHANGED <<showGit, terminalWidth, mins, maxs, displayWidths, clamped,
                   out, tableWidths, s, result>>
    /\ UNCHANGED <<data, widths, col, env, width>>

\* one iteration of "for i := range displayWidths"
ShrinkStep ==
    /\ pc = "shrink"
    /\ i < len(displayWidths)
    /\ LET minWidth == lookupMin(mins, i, DefaultMin)
           shrinkable == displayWidths[i] - minWidth
       IN  IF isShrinkable(i) /\ shrinkable > 0 /\ totalShrinkable > 0
           THEN LET amount == shrinkAmount(shrinkable, excess, totalShrinkable)
                    w == displayWidths[i] - amount
                IN  /\ displayWidths' =
                          [displayWidths EXCEPT ![i] = IF w < minWidth THEN minWidth ELSE w]
                    /\ excess' = excess - amount
                    /\ totalShrinkable' = totalShrinkable - shrinkable
           ELSE UNCHANGED <<displayWidths, excess, totalShrinkable>>
    /\ i' = i + 1
    /\ UNCHANGED <<pc, showGit, terminalWidth, mins, maxs, clamped, out,
                   tableWidths, s, result>>
    /\ UNCHANGED <<data, widths, col, env, width>>

ShrinkEnd ==
    /\ pc = "shrink"
    /\ ~(i < len(displayWidths))
    /\ pc' = "render"
    /\ UNCHANGED <<showGit, terminalWidth, mins, maxs, displayWidths, clamped, i,
                   excess, totalShrinkable, out, tableWidths, s, result>>
    /\ UNCHANGED <<data, widths, col, env, width>>

\* table.NewTableWithWidths(data, displayWidths); table.Print()
Render ==
    /\ pc = "render"
    /\ tableWidths' = displayWidths
    /\ out' = "table"
    /\ pc' = "done"
    /\ UNCHANGED <<showGit, terminalWidth, mins, maxs, displayWidths, clamped, i,
                   excess, totalShrinkable, s, result>>
    /\ UNCHANGED <<data, widths, col, env, width>>

-----------------------------------------------------------------------------
(* printTable on a non-empty listing *)

Init ==
    /\ pc = "clamp"
    /\ showGit \in BOOLEAN
    /\ terminalWidth \in TerminalWidths
    /\ mins = columnConstraints(showGit).mins
    /\ maxs = columnConstraints(showGit).maxs
    /\ displayWidths \in NaturalWidths(showGit)
    /\ clamped = Empty
    /\ i = 0
    /\ excess = 0
    /\ totalShrinkable = 0
    /\ out = "none"
    /\ tableWidths = Empty
    /\ s = <<>>
    /\ result = <<>>
    /\ data = Empty
    /\ widths = Empty
    /\ col = 0
    /\ env = NoEnv
    /\ width = 0

Next ==
    \/ Clamp
    \/ TooSmall
    \/ FloorOk
    \/ NoShrinkNeeded
    \/ BeginShrink
    \/ ShrinkStep
    \/ ShrinkEnd
    \/ Render

Spec == Init /\ [][Next]_vars

-----------------------------------------------------------------------------
(* The clamp loop alone, over arbitrary constraint tables: one column, a     *)
(* declared or absent minimum and maximum (0 or no entry: unconstrained).    *)

ClampSlices == {Empty} \cup {Slice(<<v>>) : v \in 0..MaxClampValue}

InitClamp ==
    /\ pc = "clamp"
    /\ showGit = FALSE
    /\ terminalWidth = MinTerminalWidth
    /\ mins \in ClampSlices
    /\ maxs \in ClampSlices
    /\ displayWidths \in {Slice(<<w>>) : w \in 0..(MaxClampValue + 1)}
    /\ clamped = Empty
    /\ i = 0
    /\ excess = 0
    /\ totalShrinkable = 0
    /\ out = "none"
    /\ tableWidths = Empty
    /\ s = <<>>
    /\ result = <<>>
    /\ data = Empty
    /\ widths = Empty
    /\ col = 0
    /\ env = NoEnv
    /\ width = 0

NextClamp == Clamp

SpecClamp == InitClamp /\ [][NextClamp]_vars

-----------------------------------------------------------------------------
(* stripANSI *)

ESC == 27         \* '\x1b'
Bracket == 91     \* '['
LowerA == 97      \* 'a'
LowerZ == 122     \* 'z'
UpperA == 65      \* 'A'
UpperZ == 90      \* 'Z'

\* s[k] of the Go string (0-based)
At(str, k) == str[k + 1]

isParamLowerOnly(b) == b < LowerA \/ b > LowerZ

\* the inner loop's test on s[j]: not a letter
isParam(b) == (b < LowerA \/ b > LowerZ) /\ (b < UpperA \/ b > UpperZ)

\* for j < len(s) && isParam(s[j]) { j++ }
RECURSIVE skipParams(_, _)
skipParams(str, j) ==
    IF j < Len(str) /\ isParam(At(str, j)) THEN skipParams(str, j + 1) ELSE j

\* the value of j at "i = j"
afterEscape(str, k) ==
    LET j == k + 1
    IN  IF j < Len(str) /\ At(str, j) = Bracket
        THEN skipParams(str, j + 1) + 1
        ELSE j

StripEscape ==
    /\ pc = "strip"
    /\ i < Len(s)
    /\ At(s, i) = ESC
    /\ i' = afterEscape(s, i)
    /\ UNCHANGED <<pc, showGit, terminalWidth, mins, maxs, displayWidths, clamped,
                   excess, totalShrinkable, out, tableWidths, s, result>>
    /\ UNCHANGED <<data, widths, col, env, width>>

StripCopy ==
    /\ pc = "strip"
    /\ i < Len(s)
    /\ At(s, i) # ESC
    /\ result' = Append(result, At(s, i))
    /\ i' = i + 1
    /\ UNCHANGED <<pc, showGit, terminalWidth, mins, maxs, displayWidths, clamped,
                   excess, totalShrinkable, out, tableWidths, s>>
    /\ UNCHANGED <<data, widths, col, env, width>>

StripReturn ==
    /\ pc = "strip"
    /\ ~(i < Len(s))
    /\ pc' = "stripped"
    /\ UNCHANGED <<showGit, terminalWidth, mins, maxs, displayWidths, clamped, i,
                   excess, totalShrinkable, out, tableWidths, s, result>>
    /\ UNCHANGED <<data, widths, col, env, width>>

\* utf8.RuneCountInString on the bytes of the model's alphabet: an ASCII byte
\* is one rune, a two-byte lead (0xC2..0xDF) with its continuation byte
\* (0x80..0xBF) is one rune, any other byte is one (invalid) rune.
RECURSIVE RuneCountFrom(_, _)
RuneCountFrom(str, k) ==
    IF k >= Len(str) THEN 0
    ELSE IF /\ At(str, k) >= 194 /\ At(str, k) <= 223
            /\ k + 1 < Len(str)
            /\ At(str, k + 1) >= 128 /\ At(str, k + 1) <= 191
         THEN 1 + RuneCountFrom(str, k + 2)
         ELSE 1 + RuneCountFrom(str, k + 1)

RuneCountInString(str) == RuneCountFrom(str, 0)

\* bytes of the enumerated arguments: ESC [ m Z 1 and the two bytes of U+00E9
Alphabet == {ESC, Bracket, 109, UpperZ, 49, 195, 169}

RECURSIVE StringsOfLen(_)
StringsOfLen(n) ==
    IF n = 0 THEN {<<>>}
    ELSE {Append(q, b) : q \in StringsOfLen(n - 1), b \in Alphabet}

\* "\x1b[31mRed Text\x1b[0m" (TestStripANSI)
RedText == <<82, 101, 100, 32, 84, 101, 120, 116>>
TestInput == <<27, 91, 51, 49, 109>> \o RedText \o <<27, 91, 48, 109>>
\* "\x1b[1;34m\x1b[0m": escape sequences only
OnlyEscapes == <<27, 91, 49, 59, 51, 52, 109, 27, 91, 48, 109>>

StripInputs ==
    UNION {StringsOfLen(n) : n \in 0..MaxLen} \cup {TestInput, OnlyEscapes}

InitStrip ==
    /\ pc = "strip"
    /\ showGit = FALSE
    /\ terminalWidth = MinTerminalWidth
    /\ mins = Empty
    /\ maxs = Empty
    /\ displayWidths = Empty
    /\ clamped = Empty
    /\ i = 0
    /\ excess = 0
    /\ totalShrinkable = 0
    /\ out = "none"
    /\ tableWidths = Empty
    /\ s \in StripInputs
    /\ result = <<>>
    /\ data = Empty
    /\ widths = Empty
    /\ col = 0
    /\ env = NoEnv
    /\ width = 0

NextStrip ==
    \/ StripEscape
    \/ StripCopy
    \/ StripReturn

SpecStrip == InitStrip /\ [][NextStrip]_vars

-----------------------------------------------------------------------------
(* getTerminalWidth alone, in every enumerated environment *)

Environments ==
    [columns : ColumnsValues, termWidth : TermValues, tputCols : TputValues]

GetTerminalWidth ==
    /\ pc = "getTerminalWidth"
    /\ width' = getTerminalWidth(env.columns, env.termWidth, env.tputCols)
    /\ pc' = "returned"
    /\ UNCHANGED <<showGit, terminalWidth, mins, maxs, displayWidths, clamped, i,
                   excess, totalShrinkable, out, tableWidths, s, result,
                   data, widths, col, env>>

InitTerm ==
    /\ pc = "getTerminalWidth"
    /\ showGit = FALSE
    /\ terminalWidth = MinTerminalWidth
    /\ mins = Empty
    /\ maxs = Empty
    /\ displayWidths = Empty
    /\ clamped = Empty
    /\ i = 0
    /\ excess = 0
    /\ totalShrinkable = 0
    /\ out = "none"
    /\ tableWidths = Empty
    /\ s = <<>>
    /\ result = <<>>
    /\ data = Empty
    /\ widths = Empty
    /\ col = 0
    /\ env \in Environments
    /\ width = 0

NextTerm == GetTerminalWidth

SpecTerm == InitTerm /\ [][NextTerm]_vars

-----------------------------------------------------------------------------
(* calculateDisplayWidths *)

\* stripANSI as a function of its argument: the result of the loop from k on
RECURSIVE stripANSIFrom(_, _)
stripANSIFrom(str, k) ==
    IF ~(k < Len(str)) THEN <<>>
    ELSE IF At(str, k) = ESC THEN stripANSIFrom(str, afterEscape(str, k))
         ELSE <<At(str, k)>> \o stripANSIFrom(str, k + 1)

stripANSI(str) == stripANSIFrom(str, 0)

\* width := utf8.RuneCountInString(stripANSI(data[i][j]))
cellWidth(cell) == RuneCountInString(stripANSI(cell))

rows(d) == len(d)

cols(d) == len(d[0])

\* if len(data) == 0 { return nil }
WidthsEmpty ==
    /\ pc = "calc"
    /\ len(data) = 0
    /\ widths' = Empty
    /\ pc' = "calcDone"
    /\ UNCHANGED <<showGit, terminalWidth, mins, maxs, displayWidths, clamped, i,
                   excess, totalShrinkable, out, tableWidths, s, result,
                   data, col, env, width>>

\* widths := make([]int, cols)
WidthsMake ==
    /\ pc = "calc"
    /\ len(data) # 0
    /\ widths' = [k \in 0..(cols(data) - 1) |-> 0]
    /\ i' = 0
    /\ col' = 0
    /\ pc' = "cells"
    /\ UNCHANGED <<showGit, terminalWidth, mins, maxs, displayWidths, clamped,
                   excess, totalShrinkable, out, tableWidths, s, result,
                   data, env, width>>

\* if width > widths[j] { widths[j] = width }
newWidth(w, old) == IF w > old THEN w ELSE old

\* one iteration of "for j := range cols"
WidthsCell ==
    /\ pc = "cells"
    /\ i < rows(data)
    /\ col < cols(data)
    /\ widths' = [widths EXCEPT ![col] = newWidth(cellWidth(data[i][col]), widths[col])]
    /\ col' = col + 1
    /\ UNCHANGED <<pc, showGit, terminalWidth, mins, maxs, displayWidths, clamped, i,
                   excess, totalShrinkable, out, tableWidths, s, result,
                   data, env, width>>

\* the inner loop ends: next i of "for i := range rows"
WidthsNextRow ==
    /\ pc = "cells"
    /\ i < rows(data)
    /\ ~(col < cols(data))
    /\ i' = i + 1
    /\ col' = 0
    /\ UNCHANGED <<pc, showGit, terminalWidth, mins, maxs, displayWidths, clamped,
                   excess, totalShrinkable, out, tableWidths, s, result,
                   data, widths, env, width>>

\* return widths
WidthsReturn ==
    /\ pc = "cells"
    /\ ~(i < rows(data))
    /\ pc' = "calcDone"
    /\ UNCHANGED <<showGit, terminalWidth, mins, maxs, displayWidths, clamped, i,
                   excess, totalShrinkable, out, tableWidths, s, result,
                   data, widths, col, env, width>>

\* cells: "", "1", "m1Z", a styled "Z" ("\x1b[1mZ\x1b[m"), "é1" (3 bytes,
\* 2 characters), "\x1b[1" (a sequence that is never terminated), "\x1bZ1"
CellSamples ==
    {<<>>, <<49>>, <<109, 49, 90>>, <<27, 91, 49, 109, 90, 27, 91, 109>>,
     <<195, 169, 49>>, <<27, 91, 49>>, <<27, 90, 49>>}

\* rectangular grids of r rows and c columns (a ragged grid is not modelled)
GridsOf(r, c) == [0..(r - 1) -> [0..(c - 1) -> CellSamples]]

\* the shapes: at most MaxCells cells; without columns, one or two rows
Shapes ==
    {sh \in (0..MaxCells) \X (0..MaxCells) :
        /\ sh[1] * sh[2] <= MaxCells
        /\ sh[2] = 0 => sh[1] <= 2}

Grids == UNION {GridsOf(sh[1], sh[2]) : sh \in Shapes}

InitWidths ==
    /\ pc = "calc"
    /\ showGit = FALSE
    /\ terminalWidth = MinTerminalWidth
    /\ mins = Empty
    /\ maxs = Empty
    /\ displayWidths = Empty
    /\ clamped = Empty
    /\ i = 0
    /\ excess = 0
    /\ totalShrinkable = 0
    /\ out = "none"
    /\ tableWidths = Empty
    /\ s = <<>>
    /\ result = <<>>
    /\ data \in Grids
    /\ widths = Empty
    /\ col = 0
    /\ env = NoEnv
    /\ width = 0

NextWidths ==
    \/ WidthsEmpty
    \/ WidthsMake
    \/ WidthsCell
    \/ WidthsNextRow
    \/ WidthsReturn

SpecWidths == InitWidths /\ [][NextWidths]_vars

-----------------------------------------------------------------------------
(* Vocabulary of the properties *)

AfterClamp == {"floor", "totals", "shrink", "render", "done"}

\* border overhead of an n-column table: one separator per adjacent pair of
\* columns and the two outer edges
Overhead(n) == (n - 1) * 3 + 2

\* the declared minimum of column k, or the default when none is declared
DeclaredMin(k) == IF k \in DOMAIN mins /\ mins[k] > 0 THEN mins[k] ELSE 4

RECURSIVE DeclaredMinSum(_)
DeclaredMinSum(n) == IF n = 0 THEN 0 ELSE DeclaredMinSum(n - 1) + DeclaredMin(n - 1)

\* the feasibility floor of the table being laid out
Floor == DeclaredMinSum(len(displayWidths)) + Overhead(len(displayWidths))

Rendered == pc = "done" /\ out = "table"

ClampedTotal == Sum(clamped) + Overhead(len(clamped))

FixedColumns == {1, 3}

RECURSIVE SlackTo(_, _)
SlackTo(ws, n) ==
    IF n = 0 THEN 0
    ELSE SlackTo(ws, n - 1)
         + (IF (n - 1) \notin FixedColumns /\ ws[n - 1] > DeclaredMin(n - 1)
            THEN ws[n - 1] - DeclaredMin(n - 1) ELSE 0)

ClampedSlack == SlackTo(clamped, len(clamped))

\* the scenario table of the specification: clamped widths [22,7,14,10]
ScenarioTable == ~showGit /\ clamped = Slice(<<22, 7, 14, 10>>)

-----------------------------------------------------------------------------
(* C1 *)

\* C1: whenever printTable renders the table, the final column widths plus
\* the border overhead are at most the terminal budget.
C1_RenderedFitsBudget ==
    Rendered => Sum(tableWidths) + Overhead(len(tableWidths)) <= terminalWidth

-----------------------------------------------------------------------------
(* C2 *)

\* C2: from the clamp on, every column whose clamped width is at least its
\* minimum (declared, or the default 4) keeps a width of at least that
\* minimum, through every step of the shrink loop and in the rendered table.
C2_NeverBelowMinimum ==
    pc \in AfterClamp =>
        \A k \in DOMAIN clamped :
            clamped[k] >= DeclaredMin(k) =>
                /\ displayWidths[k] >= DeclaredMin(k)
                /\ out = "table" => tableWidths[k] >= DeclaredMin(k)

\* a column was shrunk all the way to its minimum and excess remained
C2_Witness ==
    /\ Rendered
    /\ clamped[0] > DeclaredMin(0)
    /\ tableWidths[0] = DeclaredMin(0)
    /\ excess > 0

-----------------------------------------------------------------------------
(* C3 *)

\* C3: the Size column (1) and the Perms column (3) have the same width
\* after the shrink pass, and in the rendered table, as after clamping.
C3_FixedColumnsUnchanged ==
    pc \in AfterClamp =>
        \A k \in FixedColumns :
            /\ displayWidths[k] = clamped[k]
            /\ out = "table" => tableWidths[k] = clamped[k]

\* the shrink pass ran, changed some column, could not meet the budget, and
\* the Size column had room above its minimum
C3_Witness ==
    /\ Rendered
    /\ tableWidths # clamped
    /\ clamped[1] > DeclaredMin(1)
    /\ Sum(tableWidths) + Overhead(len(tableWidths)) > terminalWidth

-----------------------------------------------------------------------------
(* C4 *)

\* C4: if the terminal budget is below the feasibility floor, printTable
\* never reaches the fit step or the renderer, and ends having printed the
\* "terminal too small" advisory and no table.
C4_BelowFloorIsInfeasible ==
    (pc \in AfterClamp /\ terminalWidth < Floor) =>
        /\ pc \in {"floor", "done"}
        /\ out # "table"
        /\ tableWidths = Empty
        /\ pc = "done" => out = "tooSmall"

\* minimums [15,6,10,10], overhead 11, budget 50
C4_Witness ==
    /\ pc = "done"
    /\ ~showGit
    /\ terminalWidth = 50
    /\ Floor = 52
    /\ out = "tooSmall"

-----------------------------------------------------------------------------
(* C5 *)

\* C5: when the floor check passed, the clamped table is wider than the
\* budget and the shrinkable columns have no slack, no table is rendered.
C5_ZeroSlackIsInfeasible ==
    (/\ pc = "done"
     /\ terminalWidth >= Floor
     /\ ClampedTotal > terminalWidth
     /\ ClampedSlack = 0) => out # "table"

-----------------------------------------------------------------------------
(* C6 *)

\* C6: if the clamped widths plus the border overhead are at most the
\* budget, the widths are never changed after the clamp and the table is
\* rendered with the clamped widths.
C6_FittingWidthsUnchanged ==
    (pc \in AfterClamp /\ ClampedTotal <= terminalWidth) =>
        /\ displayWidths = clamped
        /\ out = "table" => tableWidths = clamped

\* clamped [22,7,14,10], overhead 11, budget 70 gives [22,7,14,10]
C6_Witness ==
    /\ Rendered
    /\ ScenarioTable
    /\ terminalWidth = 70
    /\ tableWidths = Slice(<<22, 7, 14, 10>>)

-----------------------------------------------------------------------------
(* C7 *)

\* C7 as stated: the scenario table under budget 60 is rendered with the
\* widths [19,7,13,10].
C7_ScenarioTwoPass ==
    (Rendered /\ ScenarioTable /\ terminalWidth = 60) =>
        tableWidths = Slice(<<19, 7, 13, 10>>)

\* C7 as amended: the scenario table under budget 60 is rendered with the
\* widths [20,7,12,10], a total of 49 + 11 = 60.
C7_ScenarioSinglePass ==
    (Rendered /\ ScenarioTable /\ terminalWidth = 60) =>
        /\ tableWidths = Slice(<<20, 7, 12, 10>>)
        /\ Sum(tableWidths) + Overhead(4) = 60

C7_Witness ==
    /\ Rendered
    /\ ScenarioTable
    /\ terminalWidth = 60
    /\ tableWidths # clamped

-----------------------------------------------------------------------------
(* C8 *)

-----------------------------------------------------------------------------
(* C9, C10: the text to be kept *)

IsLetter(b) == (b >= 97 /\ b <= 122) \/ (b >= 65 /\ b <= 90)

\* positions of the letters that could terminate a sequence opened at k
Terminators(str, k) ==
    {e \in (k + 2)..(Len(str) - 1) :
        /\ IsLetter(At(str, e))
        /\ \A m \in (k + 2)..(e - 1) : ~IsLetter(At(str, m))}

\* a recognized sequence starts at k: ESC, '[', parameters without a letter,
\* one letter
Recognized(str, k) ==
    /\ At(str, k) = 27
    /\ k + 1 < Len(str)
    /\ At(str, k + 1) = 91
    /\ Terminators(str, k) # {}

\* reading str from k: the recognized sequences removed, everything else
\* kept; ok is false when an escape marker opens no recognized sequence
RECURSIVE Parse(_, _)
Parse(str, k) ==
    IF k >= Len(str) THEN [ok |-> TRUE, kept |-> <<>>]
    ELSE IF Recognized(str, k)
         THEN Parse(str, (CHOOSE e \in Terminators(str, k) : TRUE) + 1)
         ELSE LET rest == Parse(str, k + 1)
              IN  [ok |-> rest.ok /\ At(str, k) # 27,
                   kept |-> <<At(str, k)>> \o rest.kept]

WellFormed(str) == Parse(str, 0).ok

Visible(str) == Parse(str, 0).kept

WithoutMarkers(str) == SelectSeq(str, LAMBDA b : b # 27)

-----------------------------------------------------------------------------
(* C9 *)

\* C9: stripANSI removes nothing but recognized sequences, so every visible
\* character outside a recognized sequence, in particular after an escape
\* marker that opens none, is in the result.
C9_MalformedKeptAsText ==
    pc = "stripped" => WithoutMarkers(result) = WithoutMarkers(Visible(s))

-----------------------------------------------------------------------------
(* C10 *)

\* C10: for an argument made of visible characters and well-formed escape
\* sequences, stripANSI returns exactly the visible characters in order,
\* the measured width is that of the unstyled text, and it is 0 when the
\* argument holds escape sequences only.
C10_WellFormedStripped ==
    (pc = "stripped" /\ WellFormed(s)) =>
        /\ result = Visible(s)
        /\ RuneCountInString(result) = RuneCountInString(Visible(s))
        /\ Visible(s) = <<>> => RuneCountInString(result) = 0

\* stripANSI("\x1b[31mRed Text\x1b[0m") = "Red Text"
C10_Witness ==
    /\ pc = "stripped"
    /\ s = TestInput
    /\ result = RedText
    /\ RuneCountInString(result) = 8

-----------------------------------------------------------------------------
(* C11 *)

\* the characters of a byte string: every byte that is not a UTF-8
\* continuation byte starts one
CharCount(str) == Len(SelectSeq(str, LAMBDA b : b < 128 \/ b > 191))

\* the display width of a cell: its characters outside escape sequences
DisplayWidth(cell) == CharCount(WithoutMarkers(Visible(cell)))

\* the largest display width in column c of the grid
ColumnMax(c) ==
    LET ws == {DisplayWidth(data[r][c]) : r \in DOMAIN data}
    IN  CHOOSE m \in ws : \A w \in ws : w <= m

\* C11: calculateDisplayWidths returns one width per header column, the
\* width of column c being the largest display width of a cell of column c,
\* header included; for the empty grid it returns the empty result.
C11_WidthsAreColumnMaxima ==
    pc = "calcDone" =>
        IF len(data) = 0 THEN widths = Empty
        ELSE /\ DOMAIN widths = DOMAIN data[0]
             /\ \A c \in DOMAIN widths : widths[c] = ColumnMax(c)

\* the same for the grids in which every escape marker opens a well-formed
\* sequence
WidthsOfWellFormedGrids ==
    (/\ pc = "calcDone"
     /\ len(data) # 0
     /\ \A r \in DOMAIN data : \A c \in DOMAIN data[r] : WellFormed(data[r][c]))
        => /\ DOMAIN widths = DOMAIN data[0]
           /\ \A c \in DOMAIN widths : widths[c] = ColumnMax(c)

-----------------------------------------------------------------------------
(* C12 *)

\* C12: in every environment getTerminalWidth returns a width > 0.
C12_WidthPositive ==
    pc = "returned" => width > 0

-----------------------------------------------------------------------------
(* C13 *)

\* slack left in the shrinkable columns from index n on
RECURSIVE SlackFrom(_, _)
SlackFrom(ws, n) ==
    IF n >= len(ws) THEN 0
    ELSE SlackFrom(ws, n + 1)
         + (IF n \notin FixedColumns /\ ws[n] > DeclaredMin(n)
            THEN ws[n] - DeclaredMin(n) ELSE 0)

\* what the table is wider than the budget by
Overrun(ws) == Sum(ws) + Overhead(len(ws)) - terminalWidth

\* the floor check passed, the clamped table is too wide and the slack of
\* the shrinkable columns covers the excess
Absorbable ==
    /\ terminalWidth >= Floor
    /\ ClampedTotal > terminalWidth
    /\ ClampedTotal - terminalWidth <= ClampedSlack

\* C13: in an absorbable layout, at every step of the shrink loop the
\* remaining excess is what the table still overruns the budget by and at
\* most the remaining total slack; after the loop the excess is 0 and the
\* widths plus the border overhead equal the budget.
C13_ExcessAbsorbedExactly ==
    (pc \in {"shrink", "render", "done"} /\ Absorbable) =>
        /\ excess >= 0
        /\ excess = Overrun(displayWidths)
        /\ pc = "shrink" =>
              /\ totalShrinkable = SlackFrom(displayWidths, i)
              /\ excess <= totalShrinkable
        /\ pc \in {"render", "done"} =>
              /\ excess = 0
              /\ Sum(displayWidths) + Overhead(len(displayWidths)) = terminalWidth
        /\ out = "table" =>
              Sum(tableWidths) + Overhead(len(tableWidths)) = terminalWidth

\* both shrinkable columns gave width, the second one the rounding rest
C13_Witness ==
    /\ Rendered
    /\ Absorbable
    /\ tableWidths[0] < clamped[0]
    /\ tableWidths[2] < clamped[2]
    /\ clamped[1] > DeclaredMin(1)
    /\ Sum(tableWidths) + Overhead(len(tableWidths)) = terminalWidth

=============================================================================
